---- MODULE Spec2Model ----
(***************************************************************************)
(* A model of xml_parsing.py: the field extractor (parse_xml_file), the    *)
(* range pass (get_parameter_ranges), the histogram binner                 *)
(* (initialize_batch_counts, assign_to_batch, batch_counter), the          *)
(* statistics pass (aggregate_parameters) and the script's main sequence.  *)
(*                                                                         *)
(* Numbers.  A Python float is modelled as a record [k, n]: k = "num" is   *)
(* the finite value n (the model's numerals are small integers, which a    *)
(* double holds exactly), k = "nan" is float('nan'), k = "inf" is          *)
(* float('inf') (n = 1) or float('-inf') (n = -1), and k = "None" is       *)
(* Python's None.  Quotients are kept exact: a bin width is carried in     *)
(* tenths, an average as a fraction num/den.                               *)
(*                                                                         *)
(* Text.  A str is modelled by the list of its whitespace-delimited        *)
(* tokens, which is what str.split() returns: "" and " " are the empty     *)
(* list, "2 deg" is <<2, deg>>.                                            *)
(***************************************************************************)
EXTENDS Integers, Sequences, FiniteSets, TLC

VARIABLES corpus, pc, idx, params, error, param_values, file_counts,
          statistics, param_ranges, batch_counts, bc_counts, last

vars == <<corpus, pc, idx, params, error, param_values, file_counts,
          statistics, param_ranges, batch_counts, bc_counts, last>>

\* Bounds of the model.
MaxDocs == 3
MaxVal == 2
MaxBound == 3
MaxAssign == 3

\* The number of bins (the literal 10 of lines 91, 94 and 107) and the last
\* bin index (the literal 9 of line 110).
NumBins == 10
LastBin == 9

(***************************************************************************)
(* Python values                                                           *)
(***************************************************************************)
None == [k |-> "None", n |-> 0]
NaN == [k |-> "nan", n |-> 0]
PosInf == [k |-> "inf", n |-> 1]
NegInf == [k |-> "inf", n |-> -1]
Num(n) == [k |-> "num", n |-> n]

\* a < b on floats: every comparison with nan is False.
Lt(a, b) ==
    IF a.k = "nan" \/ b.k = "nan" THEN FALSE
    ELSE IF a.k = "inf" THEN a.n < 0 /\ ~(b.k = "inf" /\ b.n < 0)
    ELSE IF b.k = "inf" THEN b.n > 0
    ELSE a.n < b.n

\* a <= b on floats.
Le(a, b) ==
    IF a.k = "nan" \/ b.k = "nan" THEN FALSE ELSE a = b \/ Lt(a, b)

\* The builtin min(a, b): b when b < a, else a.
PyMin2(a, b) == IF Lt(b, a) THEN b ELSE a

\* The builtin max(a, b): b when b > a, else a.
PyMax2(a, b) == IF Lt(a, b) THEN b ELSE a

\* a - b on floats without infinities.
Sub(a, b) == IF a.k = "nan" \/ b.k = "nan" THEN NaN ELSE Num(a.n - b.n)

\* a + b on floats without infinities.
Add(a, b) == IF a.k = "nan" \/ b.k = "nan" THEN NaN ELSE Num(a.n + b.n)

(***************************************************************************)
(* Documents                                                               *)
(***************************************************************************)
TimeFields == <<"start_date_time", "stop_date_time">>

CoordFields == <<"upper_left_latitude", "upper_left_longitude",
                 "upper_right_latitude", "upper_right_longitude",
                 "lower_left_latitude", "lower_left_longitude",
                 "lower_right_latitude", "lower_right_longitude">>

Range(s) == {s[i] : i \in DOMAIN s}

\* Tokens of a text: a decimal numeral, the word nan, a word that is no
\* number, an ISO timestamp.
Numeral(n) == [t |-> "numeral", n |-> n]
TokNan == [t |-> "nan", n |-> 0]
TokWord == [t |-> "word", n |-> 0]
TokStamp == [t |-> "timestamp", n |-> 0]

\* An element's text: NoText is an element without text, Str(toks) a text
\* with these tokens.
NoText == [p |-> "none", toks |-> <<>>]
Str(toks) == [p |-> "str", toks |-> toks]

EmptyDict == [f \in {} |-> None]

\* A file: wf (the document is well-formed), tc (it holds a Time_Coordinates
\* element) and el, the text of each field element it holds.
Doc(wf, tc, el) == [wf |-> wf, tc |-> tc, el |-> el]
BadDoc == Doc(FALSE, FALSE, EmptyDict)

\* float(token)
Float(tok) ==
    CASE tok.t = "numeral" -> Num(tok.n)
      [] tok.t = "nan" -> NaN
      [] OTHER -> [k |-> "ValueError", n |-> 0]

\* Lines 21-24: findtext gives None for a missing child and '' for a child
\* without text.
FindText(doc, f) ==
    IF f \notin DOMAIN doc.el THEN NoText
    ELSE IF doc.el[f].p = "none" THEN Str(<<>>)
    ELSE doc.el[f]

\* Lines 20-42: the raw values, before conversion.
Extract(doc) ==
    LET tkeys == IF doc.tc THEN Range(TimeFields) ELSE {}
        ckeys == Range(CoordFields) \cap DOMAIN doc.el
    IN [f \in tkeys \cup ckeys |->
            IF f \in tkeys THEN FindText(doc, f) ELSE doc.el[f]]

\* Lines 53-61, one value: None stays None, a text is cut to its first token
\* and converted; ValueError is caught, the IndexError of split()[0] is not.
ConvertMiss == [k |-> "IndexError", n |-> 0]
Convert(value) ==
    IF value.p = "none" THEN None
    ELSE IF value.toks = <<>> THEN ConvertMiss
    ELSE LET x == Float(Head(value.toks))
         IN IF x.k = "ValueError" THEN None ELSE x

\* parse_xml_file: ret = "None" (lines 44-49), "raise" (an uncaught
\* exception, exc) or "dict" (d, line 63).
parse_xml_file(doc) ==
    IF ~doc.wf THEN [ret |-> "None", d |-> EmptyDict, exc |-> "none"]
    ELSE LET raw == Extract(doc)
             d == [f \in DOMAIN raw |-> Convert(raw[f])]
         IN IF \E f \in DOMAIN d : d[f].k = "IndexError"
            THEN [ret |-> "raise", d |-> EmptyDict, exc |-> "IndexError"]
            ELSE [ret |-> "dict", d |-> d, exc |-> "none"]

\* `if params:` (lines 74, 140, 188): None and the empty dict are falsy.
Truthy(r) == r.ret = "dict" /\ DOMAIN r.d # {}

(***************************************************************************)
(* aggregate_parameters                                                    *)
(***************************************************************************)
\* Lines 142-144: every value that is not None is appended to its key's list;
\* param_values is a defaultdict, a key exists once a value was appended.
AggValid(value) == value # None

AggAppend(pv, d) ==
    LET new == {f \in DOMAIN d : AggValid(d[f])}
    IN [f \in DOMAIN pv \cup new |->
            IF f \in new
            THEN Append(IF f \in DOMAIN pv THEN pv[f] ELSE <<>>, d[f])
            ELSE pv[f]]

\* The builtins min(values), max(values) and sum(values) of a list.
RECURSIVE PyMin(_)
PyMin(values) ==
    IF Len(values) = 1 THEN values[1]
    ELSE PyMin2(PyMin(SubSeq(values, 1, Len(values) - 1)), values[Len(values)])

RECURSIVE PyMax(_)
PyMax(values) ==
    IF Len(values) = 1 THEN values[1]
    ELSE PyMax2(PyMax(SubSeq(values, 1, Len(values) - 1)), values[Len(values)])

RECURSIVE PySum(_)
PySum(values) ==
    IF values = <<>> THEN Num(0)
    ELSE Add(PySum(SubSeq(values, 1, Len(values) - 1)), values[Len(values)])

\* sum(values) / len(values), kept as the fraction num/den.
Average(values) ==
    LET s == PySum(values)
    IN IF s.k = "nan" THEN [k |-> "nan", num |-> 0, den |-> 1]
       ELSE [k |-> "num", num |-> s.n, den |-> Len(values)]

\* Lines 157-167, one key: a statistics record, or None for an empty list.
NoData == [tag |-> "None"]
StatOf(values) ==
    IF values # <<>>
    THEN [tag |-> "stat",
          count |-> Len(values),
          average |-> Average(values),
          min |-> PyMin(values),
          max |-> PyMax(values),
          range |-> Sub(PyMax(values), PyMin(values))]
    ELSE NoData

\* Lines 148-169.
Statistics(counts, pv) ==
    [file_counts |-> counts,
     parameters |-> [key \in DOMAIN pv |-> StatOf(pv[key])]]

(***************************************************************************)
(* get_parameter_ranges                                                    *)
(***************************************************************************)
\* Line 67: the defaultdict's seed.
DefaultRange == [min |-> PosInf, max |-> NegInf]

\* Line 76: every value that is not None is a float.
ValidForRange(value) == value # None

\* RangeUpdate with the guard of line 76 lost and None taken as 0.0.
RangeUpdateCoerce(pr, d) ==
    [f \in DOMAIN pr \cup DOMAIN d |->
        IF f \in DOMAIN d
        THEN LET old == IF f \in DOMAIN pr THEN pr[f] ELSE DefaultRange
                 value == IF d[f] = None THEN Num(0) ELSE d[f]
             IN [min |-> PyMin2(old.min, value),
                 max |-> PyMax2(old.max, value)]
        ELSE pr[f]]

\* RangeUpdate that sets a range from a key's first value and never widens
\* it.
RangeUpdateFirst(pr, d) ==
    LET touched == {f \in DOMAIN d : ValidForRange(d[f])}
    IN [f \in DOMAIN pr \cup touched |->
            IF f \in DOMAIN pr THEN pr[f]
            ELSE [min |-> PyMin2(DefaultRange.min, d[f]),
                  max |-> PyMax2(DefaultRange.max, d[f])]]

\* Lines 75-78: the running min and max; reading param_ranges[param] creates
\* the key.
RangeUpdate(pr, d) ==
    LET touched == {f \in DOMAIN d : ValidForRange(d[f])}
    IN [f \in DOMAIN pr \cup touched |->
            IF f \in touched
            THEN LET old == IF f \in DOMAIN pr THEN pr[f] ELSE DefaultRange
                 IN [min |-> PyMin2(old.min, d[f]),
                     max |-> PyMax2(old.max, d[f])]
            ELSE pr[f]]

\* Lines 81-82.
RangeFilter(pr) ==
    [f \in {k \in DOMAIN pr : pr[k].min # PosInf /\ pr[k].max # NegInf} |->
        pr[f]]

(***************************************************************************)
(* initialize_batch_counts, assign_to_batch                                *)
(***************************************************************************)
\* (max_val - min_val) / 10, in tenths.
BatchSize10(min_val, max_val) ==
    ((max_val.n - min_val.n) * 10) \div NumBins

\* min_val + i * batch_size, in tenths.
Edge10(i, min_val, max_val) ==
    10 * min_val.n + i * BatchSize10(min_val, max_val)

\* The format :.3f of a number given in tenths: its thousandths.
Fmt3(x10) == x10 * 100

\* Lines 95-98 and 111-114: f'Batch_{i+1}({start:.3f},{end:.3f})'.
BatchName(i, min_val, max_val) ==
    [kind |-> "Batch", i |-> i + 1,
     lo |-> Fmt3(Edge10(i, min_val, max_val)),
     hi |-> Fmt3(Edge10(i + 1, min_val, max_val))]

\* Lines 84-101.
initialize_batch_counts(pr) ==
    [param \in DOMAIN pr |->
        [name \in {BatchName(i, pr[param].min, pr[param].max) :
                       i \in 0 .. NumBins - 1} |-> 0]]

\* Line 110: min(9, int((value - min_val) // batch_size)), for a finite value
\* in the range and a batch size that is not zero.
BatchIndex(value, min_val, max_val) ==
    LET q == (10 * (value.n - min_val.n)) \div BatchSize10(min_val, max_val)
    IN IF LastBin < q THEN LastBin ELSE q

\* OverflowName with the comparison of line 118 turned round.
OverflowNameTurned(value, min_val, max_val) ==
    IF Lt(min_val, value)
    THEN [kind |-> "Underflow_Batch", i |-> 0,
          lo |-> Fmt3(10 * min_val.n), hi |-> Fmt3(10 * min_val.n)]
    ELSE [kind |-> "Overflow_Batch", i |-> 0,
          lo |-> Fmt3(10 * max_val.n), hi |-> Fmt3(10 * max_val.n)]

\* Lines 118-121.
OverflowName(value, min_val, max_val) ==
    IF Lt(value, min_val)
    THEN [kind |-> "Underflow_Batch", i |-> 0,
          lo |-> Fmt3(10 * min_val.n), hi |-> Fmt3(10 * min_val.n)]
    ELSE [kind |-> "Overflow_Batch", i |-> 0,
          lo |-> Fmt3(10 * max_val.n), hi |-> Fmt3(10 * max_val.n)]

\* Lines 115 and 125: counts[name] += 1.
Increment(counts, name) == [counts EXCEPT ![name] = @ + 1]

\* No name: the call raised before it made one.
NoName == [kind |-> "none", i |-> 0, lo |-> 0, hi |-> 0]

\* assign_to_batch on one parameter's counts: exc is the exception it raises
\* ("none": it returns), counts the parameter's counts after it.
assign_to_batch(value, counts, ranges) ==
    LET min_val == ranges.min
        max_val == ranges.max
    IN IF Le(min_val, value) /\ Le(value, max_val)
       THEN IF BatchSize10(min_val, max_val) = 0
            THEN [exc |-> "ZeroDivisionError", counts |-> counts,
                  name |-> NoName]
            ELSE LET name == BatchName(BatchIndex(value, min_val, max_val),
                                       min_val, max_val)
                 IN IF name \in DOMAIN counts
                    THEN [exc |-> "none", counts |-> Increment(counts, name),
                          name |-> name]
                    ELSE [exc |-> "KeyError", counts |-> counts,
                          name |-> name]
       ELSE LET name == OverflowName(value, min_val, max_val)
                made == [b \in DOMAIN counts \cup {name} |->
                            IF b \in DOMAIN counts THEN counts[b] ELSE 0]
            IN [exc |-> "none", counts |-> Increment(made, name),
                name |-> name]

(***************************************************************************)
(* batch_counter                                                           *)
(***************************************************************************)
\* The order of a FieldSet's keys: the order parse_xml_file inserts them in.
FieldOrder == TimeFields \o CoordFields

Pos(f) == CHOOSE i \in DOMAIN FieldOrder : FieldOrder[i] = f

\* BatchGuard that also passes over the values that are nan.
BatchGuardFinite(value, param, bc) ==
    value # None /\ value # NaN /\ param \in DOMAIN bc

\* Line 191.
BatchGuard(value, param, bc) == value # None /\ param \in DOMAIN bc

\* Lines 190-192 on one FieldSet: every guarded value is assigned, in key
\* order; the first exception ends the loop.
ClassifyAll(d, bc, pr) ==
    LET todo == {f \in DOMAIN d : BatchGuard(d[f], f, bc)}
        res == [f \in todo |-> assign_to_batch(d[f], bc[f], pr[f])]
        bad == {f \in todo : res[f].exc # "none"}
        stop == IF bad = {} THEN Len(FieldOrder) + 1
                ELSE CHOOSE i \in {Pos(f) : f \in bad} :
                         \A f \in bad : i <= Pos(f)
    IN [exc |-> IF bad = {} THEN "none" ELSE res[FieldOrder[stop]].exc,
        batch_counts |->
            [param \in DOMAIN bc |->
                IF param \in todo /\ Pos(param) < stop
                THEN res[param].counts ELSE bc[param]]]

(***************************************************************************)
(* The run: lines 196-228.  pc is the pass the script is in, idx the place *)
(* of the next entry of os.listdir's list in that pass.                    *)
(***************************************************************************)
Unset == [ret |-> "unset", d |-> EmptyDict, exc |-> "none"]
NoCall == [called |-> FALSE, value |-> None, ranges |-> DefaultRange,
           before |-> EmptyDict, exc |-> "none", name |-> NoName]
ZeroCounts == [total |-> 0, processed |-> 0, errors |-> 0]
ZeroBatch == [total_files |-> 0, processed_files |-> 0]

\* The texts of a coordinate element.
LatTexts ==
    {NoText, Str(<<>>), Str(<<TokWord>>), Str(<<TokNan>>)}
        \cup {Str(<<Numeral(n)>>) : n \in 1 .. MaxVal}

\* The documents of the run's corpora: one that is not well-formed, one
\* without any of the fields, those with a time block (its start stamp an
\* ISO timestamp, its stop stamp missing) and a latitude element or none,
\* and those with a time block, a latitude and a longitude.
MainDocs ==
    {BadDoc, Doc(TRUE, FALSE, EmptyDict)}
        \cup {Doc(TRUE, TRUE, ("start_date_time" :> Str(<<TokStamp>>)) @@ el) :
                  el \in {EmptyDict}
                      \cup {[f \in {"upper_left_latitude"} |-> t] :
                                t \in LatTexts \ {NoText}}
                      \cup {[f \in {"upper_left_latitude",
                                     "upper_left_longitude"} |->
                                 Str(<<Numeral(n)>>)] : n \in 1 .. MaxVal}}

\* The entries of the directory: xml says whether the name ends in .xml.
Entries == {[xml |-> FALSE, doc |-> BadDoc]}
               \cup {[xml |-> TRUE, doc |-> d] : d \in MainDocs}

Init ==
    /\ corpus \in UNION {[1 .. n -> Entries] : n \in 0 .. MaxDocs}
    /\ pc = "aggregate"
    /\ idx = 1
    /\ params = Unset
    /\ error = "none"
    /\ param_values = EmptyDict
    /\ file_counts = ZeroCounts
    /\ statistics = [file_counts |-> ZeroCounts, parameters |-> EmptyDict]
    /\ param_ranges = EmptyDict
    /\ batch_counts = EmptyDict
    /\ bc_counts = ZeroBatch
    /\ last = NoCall

\* Lines 134-146, one entry of the listing.
AggregateFile ==
    /\ pc = "aggregate"
    /\ idx <= Len(corpus)
    /\ LET r == parse_xml_file(corpus[idx].doc)
       IN IF ~corpus[idx].xml
          THEN /\ idx' = idx + 1
               /\ UNCHANGED <<pc, params, error, param_values, file_counts>>
          ELSE IF r.ret = "raise"
          THEN /\ pc' = "crashed"
               /\ error' = r.exc
               /\ file_counts' = [file_counts EXCEPT !.total = @ + 1]
               /\ UNCHANGED <<idx, params, param_values>>
          ELSE /\ idx' = idx + 1
               /\ params' = r
               /\ file_counts' =
                      IF Truthy(r)
                      THEN [file_counts EXCEPT !.total = @ + 1,
                                               !.processed = @ + 1]
                      ELSE [file_counts EXCEPT !.total = @ + 1,
                                               !.errors = @ + 1]
               /\ param_values' =
                      IF Truthy(r) THEN AggAppend(param_values, r.d)
                      ELSE param_values
               /\ UNCHANGED <<pc, error>>
    /\ UNCHANGED <<corpus, statistics, param_ranges, batch_counts, bc_counts,
                   last>>

\* Lines 148-169 and 198.
AggregateFinish ==
    /\ pc = "aggregate"
    /\ idx > Len(corpus)
    /\ statistics' = Statistics(file_counts, param_values)
    /\ pc' = "ranges"
    /\ idx' = 1
    /\ UNCHANGED <<corpus, params, error, param_values, file_counts,
                   param_ranges, batch_counts, bc_counts, last>>

\* Lines 69-78, one entry of the listing.
RangesFile ==
    /\ pc = "ranges"
    /\ idx <= Len(corpus)
    /\ LET r == parse_xml_file(corpus[idx].doc)
       IN IF ~corpus[idx].xml
          THEN /\ idx' = idx + 1
               /\ UNCHANGED <<pc, params, error, param_ranges>>
          ELSE IF r.ret = "raise"
          THEN /\ pc' = "crashed"
               /\ error' = r.exc
               /\ UNCHANGED <<idx, params, param_ranges>>
          ELSE /\ idx' = idx + 1
               /\ params' = r
               /\ param_ranges' =
                      IF Truthy(r) THEN RangeUpdate(param_ranges, r.d)
                      ELSE param_ranges
               /\ UNCHANGED <<pc, error>>
    /\ UNCHANGED <<corpus, param_values, file_counts, statistics,
                   batch_counts, bc_counts, last>>

\* Lines 81-82, 174 and 177-180.
RangesFinish ==
    /\ pc = "ranges"
    /\ idx > Len(corpus)
    /\ param_ranges' = RangeFilter(param_ranges)
    /\ batch_counts' = initialize_batch_counts(param_ranges')
    /\ bc_counts' = ZeroBatch
    /\ pc' = "batch"
    /\ idx' = 1
    /\ UNCHANGED <<corpus, params, error, param_values, file_counts,
                   statistics, last>>

\* Lines 182-192, one entry of the listing.
BatchFile ==
    /\ pc = "batch"
    /\ idx <= Len(corpus)
    /\ LET r == parse_xml_file(corpus[idx].doc)
           c == ClassifyAll(r.d, batch_counts, param_ranges)
       IN IF ~corpus[idx].xml
          THEN /\ idx' = idx + 1
               /\ UNCHANGED <<pc, params, error, batch_counts, bc_counts>>
          ELSE IF r.ret = "raise"
          THEN /\ pc' = "crashed"
               /\ error' = r.exc
               /\ bc_counts' = [bc_counts EXCEPT !.total_files = @ + 1]
               /\ UNCHANGED <<idx, params, batch_counts>>
          ELSE IF ~Truthy(r)
          THEN /\ idx' = idx + 1
               /\ params' = r
               /\ bc_counts' = [bc_counts EXCEPT !.total_files = @ + 1]
               /\ UNCHANGED <<pc, error, batch_counts>>
          ELSE /\ params' = r
               /\ bc_counts' = [bc_counts EXCEPT !.total_files = @ + 1,
                                                 !.processed_files = @ + 1]
               /\ batch_counts' = c.batch_counts
               /\ IF c.exc = "none"
                  THEN idx' = idx + 1 /\ UNCHANGED <<pc, error>>
                  ELSE pc' = "crashed" /\ error' = c.exc /\ UNCHANGED idx
    /\ UNCHANGED <<corpus, param_values, file_counts, statistics,
                   param_ranges, last>>

\* Lines 194 and 199.
BatchFinish ==
    /\ pc = "batch"
    /\ idx > Len(corpus)
    /\ pc' = "report"
    /\ UNCHANGED <<corpus, idx, params, error, param_values, file_counts,
                   statistics, param_ranges, batch_counts, bc_counts, last>>

\* Lines 201-228: the report prints, and changes nothing.
Report ==
    /\ pc = "report"
    /\ pc' = "done"
    /\ UNCHANGED <<corpus, idx, params, error, param_values, file_counts,
                   statistics, param_ranges, batch_counts, bc_counts, last>>

Next ==
    \/ AggregateFile
    \/ AggregateFinish
    \/ RangesFile
    \/ RangesFinish
    \/ BatchFile
    \/ BatchFinish
    \/ Report

Spec == Init /\ [][Next]_vars

(***************************************************************************)
(* assign_to_batch on its own: a range with min <= max, the bins           *)
(* initialize_batch_counts makes for it, and up to MaxAssign calls with    *)
(* any value.                                                              *)
(***************************************************************************)
Param == "upper_left_latitude"

AssignValues == {Num(n) : n \in -1 .. MaxBound + 1} \cup {NaN}

InitAssign ==
    /\ \E a \in 0 .. MaxBound, b \in 0 .. MaxBound :
          /\ a <= b
          /\ param_ranges = [f \in {Param} |-> [min |-> Num(a), max |-> Num(b)]]
    /\ batch_counts = initialize_batch_counts(param_ranges)
    /\ pc = "assign"
    /\ idx = 0
    /\ corpus = <<>>
    /\ params = Unset
    /\ error = "none"
    /\ param_values = EmptyDict
    /\ file_counts = ZeroCounts
    /\ statistics = [file_counts |-> ZeroCounts, parameters |-> EmptyDict]
    /\ bc_counts = ZeroBatch
    /\ last = NoCall

\* One call assign_to_batch(value, Param, batch_counts, param_ranges).
AssignCall ==
    /\ pc = "assign"
    /\ idx < MaxAssign
    /\ \E value \in AssignValues :
          LET r == assign_to_batch(value, batch_counts[Param],
                                   param_ranges[Param])
          IN /\ last' = [called |-> TRUE, value |-> value,
                         ranges |-> param_ranges[Param],
                         before |-> batch_counts[Param],
                         exc |-> r.exc, name |-> r.name]
             /\ batch_counts' = [batch_counts EXCEPT ![Param] = r.counts]
             /\ IF r.exc = "none"
                THEN idx' = idx + 1 /\ UNCHANGED <<pc, error>>
                ELSE pc' = "crashed" /\ error' = r.exc /\ UNCHANGED idx
    /\ UNCHANGED <<corpus, params, param_values, file_counts, statistics,
                   param_ranges, bc_counts>>

NextAssign == AssignCall

SpecAssign == InitAssign /\ [][NextAssign]_vars

(***************************************************************************)
(* parse_xml_file on its own: one document, one call.                      *)
(***************************************************************************)
Optional(f, texts) == {EmptyDict} \cup {[g \in {f} |-> t] : t \in texts}

ParseDocs ==
    {BadDoc}
        \cup {Doc(TRUE, tc, a @@ b @@ c @@ d) :
                  tc \in BOOLEAN,
                  a \in Optional("start_date_time",
                                 {NoText, Str(<<TokStamp>>),
                                  Str(<<Numeral(1)>>)}),
                  b \in Optional("stop_date_time", {Str(<<TokStamp>>)}),
                  c \in Optional("upper_left_latitude",
                                 LatTexts \cup {Str(<<Numeral(2), TokWord>>)}),
                  d \in Optional("upper_left_longitude",
                                 {Str(<<Numeral(1)>>), Str(<<TokWord>>)})}

InitParse ==
    /\ corpus \in {<<[xml |-> TRUE, doc |-> d]>> : d \in ParseDocs}
    /\ pc = "parse"
    /\ idx = 1
    /\ params = Unset
    /\ error = "none"
    /\ param_values = EmptyDict
    /\ file_counts = ZeroCounts
    /\ statistics = [file_counts |-> ZeroCounts, parameters |-> EmptyDict]
    /\ param_ranges = EmptyDict
    /\ batch_counts = EmptyDict
    /\ bc_counts = ZeroBatch
    /\ last = NoCall

\* One call parse_xml_file(file_path).
ParseCall ==
    /\ pc = "parse"
    /\ params' = parse_xml_file(corpus[idx].doc)
    /\ pc' = "parsed"
    /\ error' = params'.exc
    /\ UNCHANGED <<corpus, idx, param_values, file_counts, statistics,
                   param_ranges, batch_counts, bc_counts, last>>

NextParse == ParseCall

SpecParse == InitParse /\ [][NextParse]_vars

(***************************************************************************)
(* What the properties speak of                                            *)
(***************************************************************************)
Fields == Range(FieldOrder)

\* The FieldSet of the i-th entry of the corpus.
FieldSetAt(i) == parse_xml_file(corpus[i].doc)

\* The entries whose document yields a FieldSet that holds field f.
Holding(f) ==
    {i \in 1 .. Len(corpus) :
        LET r == FieldSetAt(i)
        IN corpus[i].xml /\ r.ret = "dict" /\ f \in DOMAIN r.d}

\* The entries whose document holds a valid (non-null) value of field f.
ValidAt(f) ==
    {i \in 1 .. Len(corpus) :
        LET r == FieldSetAt(i)
        IN corpus[i].xml /\ r.ret = "dict" /\ f \in DOMAIN r.d
               /\ r.d[f] # None}

\* The entries whose value of field f is nan.
NanAt(f) == {i \in ValidAt(f) : FieldSetAt(i).d[f] = NaN}

RECURSIVE SumOver(_, _)
SumOver(names, counts) ==
    IF names = {} THEN 0
    ELSE LET name == CHOOSE x \in names : TRUE
         IN counts[name] + SumOver(names \ {name}, counts)

\* The sum of all the counts of one parameter.
Total(counts) == SumOver(DOMAIN counts, counts)

Returned == pc \in {"report", "done"}

\* The 10 names initialize_batch_counts makes for a range.
InitialNames(ranges) ==
    {BatchName(i, ranges.min, ranges.max) : i \in 0 .. NumBins - 1}

(***************************************************************************)
(* C1                                                                      *)
(***************************************************************************)
\* C1: once batch_counter has returned, for every field with a Range the sum
\* of the field's counts (bins, Underflow and Overflow) is the number of
\* valid values of that field in the corpus.
C1_CountsSumToValidValues ==
    Returned =>
        \A f \in DOMAIN param_ranges :
            /\ f \in DOMAIN batch_counts
            /\ Total(batch_counts[f]) = Cardinality(ValidAt(f))

\* A run that returned a histogram of a field with three valid values.
C1_Witness ==
    /\ pc = "done"
    /\ \E f \in DOMAIN param_ranges :
          Cardinality(ValidAt(f)) = 3 /\ Total(batch_counts[f]) = 3

(***************************************************************************)
(* C2                                                                      *)
(***************************************************************************)
\* C2: a call of assign_to_batch with min <= value <= max returns, having
\* chosen a bin index in 0..9 and added one to a bin that
\* initialize_batch_counts made; value = max takes the bin of index 9.
C2_InRangeValueTakesABin ==
    (last.called /\ Le(last.ranges.min, last.value)
        /\ Le(last.value, last.ranges.max))
    => /\ last.exc = "none"
       /\ last.name.kind = "Batch"
       /\ last.name.i - 1 \in 0 .. LastBin
       /\ last.name \in InitialNames(last.ranges)
       /\ last.name \in DOMAIN last.before
       /\ batch_counts[Param] = Increment(last.before, last.name)
       /\ (last.value = last.ranges.max => last.name.i - 1 = LastBin)

(***************************************************************************)
(* C3                                                                      *)
(***************************************************************************)
\* Every text of the corpus holds a token: parse_xml_file raises on none of
\* its documents.
EveryTextHoldsAToken ==
    \A i \in 1 .. Len(corpus) : FieldSetAt(i).ret # "raise"

\* C3: on every corpus, of which the empty one, one with documents that fail
\* to parse, with fields without a valid value and with a field whose valid
\* values are all equal, the run ends no pass with an uncaught error.
C3_RunReachesTheReport ==
    EveryTextHoldsAToken => pc # "crashed"

(***************************************************************************)
(* C4                                                                      *)
(***************************************************************************)
\* What the claim gives for a raw value: its number when the text's first
\* token is one, None when the text is missing, empty or no number.
C4_Expected(value) ==
    IF value.p = "str" /\ value.toks # <<>>
          /\ Head(value.toks).t \in {"numeral", "nan"}
    THEN Float(Head(value.toks))
    ELSE None

\* C4: parse_xml_file on a well-formed document raises nothing and returns a
\* FieldSet; a field whose text is missing, empty or no number is None in it,
\* and every other field has its own value.
C4_ConversionFailureNullsOneField ==
    (pc = "parsed" /\ corpus[1].doc.wf)
    => /\ params.ret = "dict"
       /\ DOMAIN params.d = DOMAIN Extract(corpus[1].doc)
       /\ \A f \in DOMAIN params.d :
             params.d[f] = C4_Expected(Extract(corpus[1].doc)[f])

(***************************************************************************)
(* C5                                                                      *)
(***************************************************************************)
\* The .xml entries a scan has gone through.
Scanned == {i \in 1 .. idx - 1 : corpus[i].xml}

\* C5: in both scans the total is the number of .xml entries gone through,
\* the processed count the number of those whose FieldSet is not null, the
\* error count the number of those whose FieldSet is null.
C5_ProcessedIffFieldSet ==
    /\ pc = "aggregate" =>
          /\ file_counts.total = Cardinality(Scanned)
          /\ file_counts.processed =
                 Cardinality({i \in Scanned : FieldSetAt(i).ret = "dict"})
          /\ file_counts.errors =
                 Cardinality({i \in Scanned : FieldSetAt(i).ret = "None"})
          /\ file_counts.total = file_counts.processed + file_counts.errors
    /\ pc = "batch" =>
          /\ bc_counts.total_files = Cardinality(Scanned)
          /\ bc_counts.processed_files =
                 Cardinality({i \in Scanned : FieldSetAt(i).ret = "dict"})

(***************************************************************************)
(* C6                                                                      *)
(***************************************************************************)
Aggregated == pc \in {"ranges", "batch", "report", "done"}

\* C6: a field some FieldSet holds, and that has no valid value in the whole
\* corpus, is a key of statistics['parameters'], with the value None.
C6_NoDataMarker ==
    Aggregated =>
        \A f \in Fields :
            (Holding(f) # {} /\ ValidAt(f) = {})
            => /\ f \in DOMAIN statistics.parameters
               /\ statistics.parameters[f] = NoData

(***************************************************************************)
(* C7                                                                      *)
(***************************************************************************)
\* C7: every key of the Range mapping and of the histogram is a field with a
\* valid value in the corpus, so that a field without one is a key of
\* neither.
C7_NoValidValueNoRangeNoBins ==
    \A f \in DOMAIN param_ranges \cup DOMAIN batch_counts : ValidAt(f) # {}

\* A run that returned a histogram, over a corpus with a field that some
\* FieldSet holds and that has no valid value.
C7_Witness ==
    /\ pc = "done"
    /\ DOMAIN batch_counts # {}
    /\ \E f \in Fields : Holding(f) # {} /\ ValidAt(f) = {}

(***************************************************************************)
(* C8                                                                      *)
(***************************************************************************)
\* v <= num/den and num/den <= v, for a float v and an average.
LeAverage(v, a) == v.k = "num" /\ a.k = "num" /\ v.n * a.den <= a.num
AverageLe(a, v) == v.k = "num" /\ a.k = "num" /\ a.num <= v.n * a.den

\* C8: every statistics record has min <= average <= max and range >= 0.
C8_AverageBetweenMinAndMax ==
    Aggregated =>
        \A f \in DOMAIN statistics.parameters :
            statistics.parameters[f] # NoData =>
                /\ LeAverage(statistics.parameters[f].min,
                             statistics.parameters[f].average)
                /\ AverageLe(statistics.parameters[f].average,
                             statistics.parameters[f].max)
                /\ Le(Num(0), statistics.parameters[f].range)

(***************************************************************************)
(* C9                                                                      *)
(***************************************************************************)
OutOfRange(value, ranges) ==
    ~(Le(ranges.min, value) /\ Le(value, ranges.max))

\* C9: a call of assign_to_batch with a value outside the range returns,
\* having added one to one out-of-range bucket, made with count 0 if it was
\* not there, and left every other count as it was: the Underflow bucket of
\* the min bound for value < min, the Overflow bucket of the max bound for
\* value > max.
C9_OutOfRangeValueTakesOneBucket ==
    (last.called /\ OutOfRange(last.value, last.ranges))
    => /\ last.exc = "none"
       /\ last.name.kind \in {"Underflow_Batch", "Overflow_Batch"}
       /\ DOMAIN batch_counts[Param] = DOMAIN last.before \cup {last.name}
       /\ \A b \in DOMAIN last.before \ {last.name} :
             batch_counts[Param][b] = last.before[b]
       /\ batch_counts[Param][last.name] =
              (IF last.name \in DOMAIN last.before
               THEN last.before[last.name] ELSE 0) + 1
       /\ Lt(last.value, last.ranges.min) =>
              /\ last.name.kind = "Underflow_Batch"
              /\ last.name.lo = Fmt3(10 * last.ranges.min.n)
       /\ Lt(last.ranges.max, last.value) =>
              /\ last.name.kind = "Overflow_Batch"
              /\ last.name.lo = Fmt3(10 * last.ranges.max.n)

\* A second value under the min: the Underflow bucket is there and is used
\* again.
C9_Witness ==
    /\ last.called
    /\ Lt(last.value, last.ranges.min)
    /\ last.name \in DOMAIN last.before
    /\ batch_counts[Param][last.name] = 2

(***************************************************************************)
(* C10                                                                     *)
(***************************************************************************)
Ranged == pc \in {"batch", "report", "done"}

\* C10: in a run over one corpus no Underflow and no Overflow bucket is ever
\* made, and every field of the histogram ends with its 10 bins.
C10_NoOutOfRangeBucket ==
    /\ \A f \in DOMAIN batch_counts :
          \A name \in DOMAIN batch_counts[f] : name.kind = "Batch"
    /\ Returned =>
          \A f \in DOMAIN batch_counts :
              DOMAIN batch_counts[f] = InitialNames(param_ranges[f])

\* C10, amended: in a run over one corpus every valid value that is not nan
\* lies in its field's range and no Underflow bucket is ever made; an
\* Overflow bucket holds no more than the field's nan values, and every field
\* of the histogram ends with its 10 bins, and with the Overflow bucket of
\* its nan values if it has any.
C10_OnlyNanOutOfRange ==
    /\ Ranged =>
          \A f \in DOMAIN param_ranges :
              \A i \in ValidAt(f) \ NanAt(f) :
                  /\ Le(param_ranges[f].min, FieldSetAt(i).d[f])
                  /\ Le(FieldSetAt(i).d[f], param_ranges[f].max)
    /\ \A f \in DOMAIN batch_counts :
          \A name \in DOMAIN batch_counts[f] :
              name.kind # "Batch" =>
                  /\ name = OverflowName(NaN, param_ranges[f].min,
                                         param_ranges[f].max)
                  /\ batch_counts[f][name] >= 1
                  /\ batch_counts[f][name] <= Cardinality(NanAt(f))
    /\ Returned =>
          \A f \in DOMAIN batch_counts :
              /\ InitialNames(param_ranges[f]) \subseteq DOMAIN batch_counts[f]
              /\ \A name \in DOMAIN batch_counts[f] \
                                 InitialNames(param_ranges[f]) :
                     batch_counts[f][name] = Cardinality(NanAt(f))
              /\ NanAt(f) # {} =>
                     DOMAIN batch_counts[f] # InitialNames(param_ranges[f])

\* A run that returned a histogram with values in the first and the last bin
\* and a nan value in the Overflow bucket.
C10_Witness ==
    /\ pc = "done"
    /\ \E f \in DOMAIN batch_counts :
          /\ NanAt(f) # {}
          /\ ValidAt(f) \ NanAt(f) # {}
          /\ \E name \in DOMAIN batch_counts[f] :
                name.kind = "Overflow_Batch" /\ batch_counts[f][name] = 1

====
